---- MODULE Spec2Model ----
(***************************************************************************)
(* Driver Updater (driver-updater.py): the scan worker (ScanWorker), the   *)
(* update worker (UpdateWorker) and the part of the controller             *)
(* (DriverUpdaterApp) that starts, cancels and finishes them.              *)
(*                                                                         *)
(* The worker runs in its own thread; the controller calls stop() from the *)
(* GUI thread, so stop() interleaves with every step of the worker.  A     *)
(* worker step is one read or write of the shared flag _is_running, one    *)
(* subprocess launch, one subprocess exit or one emission.                 *)
(***************************************************************************)
EXTENDS Integers, Sequences, FiniteSets, TLC

(* ------------------------------ bounds -------------------------------- *)
\* longest plugin mapping / recommended-package list / update batch
MaxPkgs == 2
\* most lines after the header of `apt list --upgradable`
MaxLines == 2

(* --------------------------- text and data ---------------------------- *)
\* A text is the sequence of the fragments it is made of, chosen so that a
\* keyword of the driver regex occurs in a text iff it is one of its
\* fragments.  A line of process output is the sequence of its
\* whitespace-separated tokens (str.split()), each token a text.

\* Python's None: a value no text of the model equals
None == <<"<None>">>

\* the package manager's "not installed" marker
NotInstalledMark == <<"(none)">>

\* the fallback's "unknown version" marker
NotAvailableMark == <<"N/A">>

\* version strings the package manager reports
Versions == {<<"1.2">>, <<"1.3">>}

\* package identifiers of the modelled host
PkgNames == {<<"nvidia", "-", "driver", "-", "535">>, <<"libfoo">>}

\* architectures of the upgradable listing
Archs == {<<"amd", "64">>, <<"all">>}

SeqsUpTo(S, n) == UNION {[1..k -> S] : k \in 0..n}

Range(s) == {s[i] : i \in 1..Len(s)}

IsInjective(s) == \A i, j \in 1..Len(s) : s[i] = s[j] => i = j

Last(s) == s[Len(s)]

Front(s) == SubSeq(s, 1, Len(s) - 1)

\* smallest member of a non-empty set of naturals
Min(S) == CHOOSE x \in S : \A y \in S : x <= y

(* --------------------- apt-cache policy <package> --------------------- *)
\* One field line of the policy output, "  Installed: 1.2".
PolicyLine(key, val) == <<<<key>>, val>>

\* The outputs a policy query can print: each of the two fields present
\* or absent; nothing at all for an unknown package.
PolicyStdouts ==
  { (IF i = None THEN <<>> ELSE <<PolicyLine("Installed:", i)>>)
      \o (IF c = None THEN <<>> ELSE <<PolicyLine("Candidate:", c)>>) :
    i \in Versions \cup {NotInstalledMark, None},
    c \in Versions \cup {NotInstalledMark, None} }

\* re.search(key + r"\s*([^\n]+)", stdout): group(1).strip() of the first
\* line carrying the field, None without one.
SearchField(stdout, key) ==
  LET hits == {k \in 1..Len(stdout) : stdout[k][1] = <<key>>}
  IN  IF hits = {} THEN None ELSE stdout[Min(hits)][2]

\* _policy: (installed, candidate), both None when stdout is empty
Policy(stdout) ==
  IF stdout # <<>>
  THEN <<SearchField(stdout, "Installed:"), SearchField(stdout, "Candidate:")>>
  ELSE <<None, None>>

\* Python truth of an Optional[str]
Truthy(text) == text # None /\ text # <<>>

(* ---------------------- apt list --upgradable ------------------------- *)
\* "Listing... Done"
HeaderLine == <<<<"Listing...">>, <<"Done">>>>

\* "name/stable 1.3 amd64 [upgradable from: 1.2]"; the bracket is absent
\* when from = None
UpgradableLine(name, ver, arch, from) ==
  <<name \o <<"/", "stable">>, ver, arch>>
    \o (IF from = None THEN <<>>
        ELSE <<<<"[upgradable">>, <<"from:">>, from \o <<"]">>>>)

\* the lines of the modelled listing: a driver package with an older, the
\* same and no stated installed version, and a package that is no driver,
\* for the amd64 architecture and for all
UpgradableLines ==
  { UpgradableLine(<<"nvidia", "-", "driver", "-", "535">>, <<"1.3">>, <<"all">>, f) :
      f \in Versions \cup {None} }
  \cup { UpgradableLine(<<"libfoo">>, <<"1.3">>, a, <<"1.2">>) : a \in Archs }

\* stdout of the listing: the header, then up to MaxLines lines
ListStdouts == { <<HeaderLine>> \o ls : ls \in SeqsUpTo(UpgradableLines, MaxLines) }

\* the fragments of a whole line, tokens joined by a blank
RECURSIVE LineText(_)
LineText(line) ==
  IF line = <<>> THEN <<>>
  ELSE IF Len(line) = 1 THEN line[1]
  ELSE line[1] \o <<" ">> \o LineText(Tail(line))

\* driver_regex, line 181
DriverKeywords == {"driver", "firmware", "nvidia", "amd", "intel", "vulkan", "mesa"}

KernelSuffixes == {"modules", "image", "headers"}

\* re.search(driver_regex, line, re.IGNORECASE)
DriverRegexMatches(line) ==
  LET t == LineText(line)
  IN  \E i \in 1..Len(t) :
        \/ t[i] \in DriverKeywords
        \/ t[i] = "linux-" /\ i < Len(t) /\ t[i + 1] \in KernelSuffixes

\* token.split('/')[0]
BeforeSlash(token) ==
  LET hits == {k \in 1..Len(token) : token[k] = "/"}
  IN  IF hits = {} THEN token ELSE SubSeq(token, 1, Min(hits) - 1)

\* re.search(r'\[upgradable from: ([^\]]+)\]', line): group(1), or None
UpgradableFrom(line) ==
  LET hits == {k \in 1..(Len(line) - 2) :
                 /\ line[k] = <<"[upgradable">>
                 /\ line[k + 1] = <<"from:">>
                 /\ Len(line[k + 2]) >= 2
                 /\ Last(line[k + 2]) = "]"}
  IN  IF hits = {} THEN None ELSE Front(line[Min(hits) + 2])

\* the value a policy output states for a field: the text after the key
\* on a line of the output
FieldValues(stdout, key) == {stdout[k][2] : k \in {j \in 1..Len(stdout) : stdout[j][1] = <<key>>}}

(* ----------------------------- candidates ----------------------------- *)
\* an entry of updates_found (vendor and model, which no check reads, are
\* left out)
Candidate(pkg, cur, new, type) ==
  [package |-> pkg, current_version |-> cur, new_version |-> new, type |-> type]

\* what a policy output calls for: a 'detect' entry from the Installed to
\* the Candidate version when the output states both, Installed is not
\* "(none)" and the two differ; else nothing
DetectEntryCalledFor(pkg, stdout) ==
  LET called == { <<i, c>> \in FieldValues(stdout, "Installed:") \X FieldValues(stdout, "Candidate:") :
                    i # NotInstalledMark /\ i # c }
  IN  IF called = {} THEN <<>>
      ELSE LET ic == CHOOSE x \in called : TRUE
           IN  <<Candidate(pkg, ic[1], ic[2], "detect")>>

\* an upgrade test that does not look for the "(none)" marker
DetectUpdatesOfAnyInstalled(pkg, installed, candidate) ==
  IF Truthy(installed) /\ Truthy(candidate) /\ installed # candidate
  THEN <<Candidate(pkg, installed, candidate, "detect")>>
  ELSE <<>>

\* lines 120-128: the 'detect' entry for pkg, or nothing
DetectUpdates(pkg, installed, candidate) ==
  IF Truthy(installed) /\ Truthy(candidate)
     /\ installed # candidate /\ installed # NotInstalledMark
  THEN <<Candidate(pkg, installed, candidate, "detect")>>
  ELSE <<>>

\* a recommended entry that carries the parsed Installed value as it is
RecommendedUpdatesRaw(pkg, installed, candidate) ==
  IF installed = NotInstalledMark \/ installed = None
  THEN <<Candidate(pkg, installed, IF Truthy(candidate) THEN candidate ELSE <<>>,
                   "detect-recommended")>>
  ELSE <<>>

\* lines 145-153: the 'detect-recommended' entry for pkg, or nothing
RecommendedUpdates(pkg, installed, candidate) ==
  IF installed = NotInstalledMark \/ installed = None
  THEN <<Candidate(pkg,
                   IF Truthy(installed) THEN installed ELSE NotInstalledMark,
                   IF Truthy(candidate) THEN candidate ELSE <<>>,
                   "detect-recommended")>>
  ELSE <<>>

\* lines 187-202: the 'apt' entry for a line, or nothing
AptUpdates(line) ==
  IF DriverRegexMatches(line)
  THEN LET from == UpgradableFrom(line)
       IN  <<Candidate(BeforeSlash(line[1]),
                       IF from # None THEN from ELSE NotAvailableMark,
                       line[2], "apt")>>
  ELSE <<>>

(* ------------------------------- state -------------------------------- *)
VARIABLES
  \* DriverUpdaterApp (the GUI thread)
  is_scanning,     \* self.is_scanning
  thread_running,  \* self.scan_thread.isRunning()
  gui,             \* "idle", or "wait": blocked in scan_thread.wait()
  gui_next,        \* the page reset_scan_state's caller shows after the wait
  page,            \* the current widget of stacked_widget: "scan" or "results"
  btn_text,        \* the label of scan_circle
  banner,          \* the banner: "ok", "scanning", "error", "message"
  inbox,           \* the worker's signals queued for the GUI thread, in order
  found_updates,   \* the list finish_scan was given, from which the results
                   \* page and its buttons are built
  buttons_enabled, \* the QPushButtons of the results page shown are enabled
  dialogs,         \* the message boxes finish_update has shown for the update
  \* ScanWorker (the scan thread)
  pc,              \* the worker's position
  is_running,      \* self._is_running, the cancellation flag
  ctx,             \* the call site of the _run_command in progress
  packages,        \* the plugin mapping's keys, in its order
  to_install,      \* the plugin's recommended-package list
  lines,           \* upgradable_lines
  idx,             \* the position of the running for loop
  updates_found,   \* updates_found
  proc,            \* the CompletedProcess _run_command returned
  \* the run's history, kept for the properties
  events,          \* progress, finished and error signals emitted, in order
  launches,        \* processes subprocess.run started, in order
  stopCalled,      \* stop() was called on this worker
  stopBeforeFirst, \* stop() was called inside run_detect_scan or run_apt_scan
                   \* while updates_found was still empty
  stopAtCall,      \* stop() had been called when the _run_command in progress
                   \* was entered
  refreshStderr,   \* the stderr of a 'pkexec apt update' that exited non-zero,
                   \* None while none has
  pluginFailed,    \* the exception loading the plugin raised, or "none"
  detectEntered,   \* run_detect_scan was entered
  aptInvoked,      \* run_apt_scan was invoked
  cmdFailed,       \* an external command failed (launch or exit status)
  listingSeen,     \* the stdout of the upgradable listing run_apt_scan went
                   \* through (kept with its result, dropped when the
                   \* function is left without one)
  scanOverlap,     \* a scan worker was started while another was executing
  updateOverlap,   \* an update worker was started while another was executing
  policySeen,      \* per package of the upgrade loop whose policy query has
                   \* returned: the 'detect' entry its output calls for (kept
                   \* with the result of run_detect_scan, dropped when the
                   \* function is left without one)
  \* UpdateWorker (the update thread)
  u_pc,            \* the worker's position
  u_packages,      \* the packages argument of run_update
  u_idx,           \* the position of any()'s generator
  u_any_not_installed, \* any_not_installed
  \* the update's history, kept for the properties
  u_determined,    \* what _is_installed returned, per package asked
  u_failed,        \* how the policy query of _is_installed failed, per package
                   \* asked: "launch", "exit", or "none" when it did not
  u_calls,         \* the subprocess.run calls of line 253, in order
  u_events,        \* finished signals emitted, in order
  u_inbox,         \* the finished signals queued for the GUI thread
  u_rc,            \* the exit status of the install command, or NoStatus
  u_exc            \* the exception raised inside run_update, or "none"

guiVars == <<is_scanning, thread_running, gui, gui_next, page, btn_text, banner>>

ctrlVars == <<guiVars, inbox>>

pageVars == <<found_updates, buttons_enabled, dialogs>>

scanVars == <<pc, is_running, ctx, packages, to_install, lines, idx, updates_found, proc>>

histVars == <<events, launches, stopCalled, stopBeforeFirst, stopAtCall, refreshStderr,
              pluginFailed, detectEntered, aptInvoked, cmdFailed>>

overlapVars == <<scanOverlap, updateOverlap>>

obsVars == <<policySeen, listingSeen, overlapVars>>

updVars == <<u_pc, u_packages, u_idx, u_any_not_installed, u_determined, u_failed, u_calls, u_events,
             u_inbox, u_rc, u_exc>>

vars == <<ctrlVars, pageVars, scanVars, histVars, obsVars, updVars>>

(* ------------------------------ signals ------------------------------- *)
\* a signal of the worker: src is the function whose execution caused it
ProgressEvent(pct, src) ==
  [type |-> "progress", pct |-> pct, list |-> <<>>, msg |-> <<>>, src |-> src]

FinishedEvent(found, src) ==
  [type |-> "finished", pct |-> 0, list |-> found, msg |-> <<>>, src |-> src]

ErrorEvent(msg, src) ==
  [type |-> "error", pct |-> 0, list |-> <<>>, msg |-> msg, src |-> src]

\* signal.emit(...): recorded, and queued for the GUI thread
Emit(evs) ==
  /\ events' = events \o evs
  /\ inbox' = inbox \o evs

NoEmit == UNCHANGED <<events, inbox>>

\* the initial state, and the state start_scan gives a new worker
NoProc == [rc |-> 0, stdout |-> <<>>, stderr |-> <<>>]

\* no exit status yet
NoStatus == -1

(* ------------------------------- Init --------------------------------- *)
\* no update worker yet
UpdateIdle ==
  /\ u_pc = "idle"
  /\ u_packages = <<>>
  /\ u_idx = 1
  /\ u_any_not_installed = FALSE
  /\ u_determined = <<>>
  /\ u_failed = <<>>
  /\ u_calls = <<>>
  /\ u_events = <<>>
  /\ u_inbox = <<>>
  /\ u_rc = NoStatus
  /\ u_exc = "none"

\* no scan worker yet, the window on its scan page
ScanIdle ==
  /\ is_scanning = FALSE
  /\ thread_running = FALSE
  /\ gui = "idle"
  /\ gui_next = "stay"
  /\ page = "scan"
  /\ btn_text = "SCAN"
  /\ banner = "ok"
  /\ inbox = <<>>
  /\ found_updates = <<>>
  /\ buttons_enabled = FALSE
  /\ dialogs = <<>>
  /\ pc = "idle"
  /\ is_running = TRUE
  /\ ctx = "none"
  /\ packages = <<>>
  /\ to_install = <<>>
  /\ lines = <<>>
  /\ idx = 1
  /\ updates_found = <<>>
  /\ proc = NoProc
  /\ events = <<>>
  /\ launches = <<>>
  /\ stopCalled = FALSE
  /\ stopBeforeFirst = FALSE
  /\ stopAtCall = FALSE
  /\ refreshStderr = None
  /\ pluginFailed = "none"
  /\ detectEntered = FALSE
  /\ aptInvoked = FALSE
  /\ cmdFailed = FALSE
  /\ policySeen = <<>>
  /\ listingSeen = <<>>
  /\ scanOverlap = FALSE
  /\ updateOverlap = FALSE

Init == ScanIdle /\ UpdateIdle

(* ----------------------------- exceptions ----------------------------- *)
\* the exceptions of the model; every one is a subclass of Exception
ExceptionSubclasses ==
  {"ImportError", "SystemError", "InterruptedError", "FileNotFoundError",
   "CalledProcessError"}

\* what loading the plugin can do (lines 68-72): import_module('detect')
\* or import apt_pkg raises ImportError, apt_pkg.init() raises SystemError
PluginLoadOutcomes == {"ok", "ImportError", "SystemError"}

\* the call sites inside the inner try of run_scan (lines 67-75)
InnerTrySites == {"load", "d_upg", "d_rec"}

\* a handler that takes only a failed import for a missing plugin
CaughtImportErrorOnly(exc) == exc = "ImportError"

\* line 76, except Exception
CaughtByFallbackHandler(exc) == exc \in ExceptionSubclasses

\* a run_scan without its outer handler
CaughtNoException(exc) == FALSE

\* line 82, except Exception
CaughtByRunScanHandler(exc) == exc \in ExceptionSubclasses

\* the function a call site belongs to
SiteOwner(site) ==
  CASE site = "load" -> "run_scan"
    [] site \in {"d_upg", "d_rec"} -> "run_detect_scan"
    [] OTHER -> "run_apt_scan"

\* An exception raised at call site `site` propagates into run_scan: the
\* inner handler logs it and falls through to run_apt_scan (lines 76-81);
\* otherwise the outer handler emits error (lines 82-83) and run_scan ends.
Raise(exc, site) ==
  IF site \in InnerTrySites /\ CaughtByFallbackHandler(exc)
  THEN /\ pc' = "a_enter"
       /\ NoEmit
  ELSE IF CaughtByRunScanHandler(exc)
  THEN /\ pc' = "done"
       /\ Emit(<<ErrorEvent(<<"Unexpected error occurred:", exc>>, SiteOwner(site))>>)
  ELSE /\ pc' = "crashed"
       /\ NoEmit

\* `if not self._is_running: return` in front of the rest of a step
Return == pc' = "done"

\* The locals of run_detect_scan and run_apt_scan end with the function:
\* a local keeps its value v while the worker stays inside, and is gone
\* (back to its initial value) once the step has left the function.
Local(v, initial) == IF pc' \in {"done", "a_enter", "crashed"} THEN initial ELSE v

\* the locals a step does not assign
KeepLocals ==
  /\ ctx' = Local(ctx, "none")
  /\ packages' = Local(packages, <<>>)
  /\ to_install' = Local(to_install, <<>>)
  /\ lines' = Local(lines, <<>>)
  /\ idx' = Local(idx, 1)
  /\ proc' = Local(proc, NoProc)

(* ----------------------------- run_scan ------------------------------- *)
\* line 64: run_scan starts by setting the flag
RunScanBegin ==
  /\ pc = "start"
  /\ is_running' = TRUE
  /\ pc' = "load"
  /\ UNCHANGED <<ctrlVars, ctx, packages, to_install, lines, idx, updates_found, proc, histVars>>
  /\ UNCHANGED updVars
  /\ UNCHANGED pageVars
  /\ UNCHANGED obsVars

\* lines 67-77: load the plugin and its index library
LoadPlugin ==
  /\ pc = "load"
  /\ \E r \in PluginLoadOutcomes :
       IF r = "ok"
       THEN /\ pc' = "d_enter"
            /\ NoEmit
            /\ UNCHANGED pluginFailed
       ELSE /\ Raise(r, "load")
            /\ pluginFailed' = r
  /\ KeepLocals
  /\ UNCHANGED <<guiVars, is_running, updates_found>>
  /\ UNCHANGED <<launches, stopCalled, stopBeforeFirst, stopAtCall, refreshStderr,
                 detectEntered, aptInvoked, cmdFailed>>
  /\ UNCHANGED updVars
  /\ UNCHANGED pageVars
  /\ UNCHANGED obsVars

(* --------------------------- _run_command ----------------------------- *)
\* the argv of a call site
CmdOf(site) ==
  CASE site \in {"d_upg", "d_rec"} -> "apt-cache policy"
    [] site = "a_update" -> "pkexec apt update"
    [] site = "a_list" -> "apt list --upgradable"

\* check=True at the call site (line 179)
Strict(site) == site = "a_list"

\* where the call returns to
ReturnSite(site) ==
  CASE site = "d_upg" -> "d_upg_ret"
    [] site = "d_rec" -> "d_rec_ret"
    [] site = "a_update" -> "a_update_ret"
    [] site = "a_list" -> "a_list_ret"

\* what a process can exit with
ProcResults(cmd) ==
  CASE cmd = "apt-cache policy" ->
         {[rc |-> 0, stdout |-> o, stderr |-> <<>>] : o \in PolicyStdouts}
           \cup {[rc |-> 100, stdout |-> <<>>, stderr |-> <<"E:">>]}
    [] cmd = "pkexec apt update" ->
         {[rc |-> r, stdout |-> <<>>, stderr |-> e] : r \in {0, 100}, e \in {<<>>, <<"E:">>}}
    [] cmd = "apt list --upgradable" ->
         {[rc |-> 0, stdout |-> o, stderr |-> <<>>] : o \in ListStdouts}
           \cup {[rc |-> 100, stdout |-> <<>>, stderr |-> <<"E:">>]}

\* a worker that waits for the flag to come back instead of raising
RunCommandBlocks(site) ==
  /\ pc' = "rc_check"
  /\ NoEmit

\* line 215: raise InterruptedError
RunCommandInterrupted(site) == Raise("InterruptedError", site)

\* line 214: the flag is read; a cleared flag raises InterruptedError
RunCommandCheck ==
  /\ pc = "rc_check"
  /\ IF ~is_running
     THEN RunCommandInterrupted(ctx)
     ELSE /\ pc' = "rc_launch"
          /\ NoEmit
  /\ stopAtCall' = stopCalled
  /\ KeepLocals
  /\ UNCHANGED <<guiVars, is_running, updates_found>>
  /\ UNCHANGED <<launches, stopCalled, stopBeforeFirst, refreshStderr, pluginFailed,
                 detectEntered, aptInvoked, cmdFailed>>
  /\ UNCHANGED updVars
  /\ UNCHANGED pageVars
  /\ UNCHANGED obsVars

\* line 216: subprocess.run starts the process, or the executable is missing
RunCommandLaunch ==
  /\ pc = "rc_launch"
  /\ \E found \in BOOLEAN :
       IF found
       THEN /\ launches' = Append(launches, [cmd |-> CmdOf(ctx), afterStop |-> stopCalled,
                                               callAfterStop |-> stopAtCall])
            /\ pc' = "rc_wait"
            /\ NoEmit
            /\ UNCHANGED cmdFailed
       ELSE /\ Raise("FileNotFoundError", ctx)
            /\ cmdFailed' = TRUE
            /\ UNCHANGED launches
  /\ KeepLocals
  /\ UNCHANGED <<guiVars, is_running, updates_found>>
  /\ UNCHANGED <<stopCalled, stopBeforeFirst, stopAtCall, refreshStderr, pluginFailed,
                 detectEntered, aptInvoked>>
  /\ UNCHANGED updVars
  /\ UNCHANGED pageVars
  /\ UNCHANGED obsVars

\* line 216: the process exits; check=True turns a non-zero status into
\* CalledProcessError
ProcessExit ==
  /\ pc = "rc_wait"
  /\ \E r \in ProcResults(CmdOf(ctx)) :
       /\ cmdFailed' = (cmdFailed \/ r.rc # 0)
       /\ refreshStderr' = IF ctx = "a_update" /\ r.rc # 0 THEN r.stderr ELSE refreshStderr
       /\ IF Strict(ctx) /\ r.rc # 0
          THEN /\ Raise("CalledProcessError", ctx)
               /\ proc' = Local(proc, NoProc)
          ELSE /\ proc' = r
               /\ pc' = ReturnSite(ctx)
               /\ NoEmit
  /\ ctx' = Local(ctx, "none")
  /\ packages' = Local(packages, <<>>)
  /\ to_install' = Local(to_install, <<>>)
  /\ lines' = Local(lines, <<>>)
  /\ idx' = Local(idx, 1)
  /\ UNCHANGED <<guiVars, is_running, updates_found>>
  /\ UNCHANGED <<launches, stopCalled, stopBeforeFirst, stopAtCall, pluginFailed, detectEntered,
                 aptInvoked>>
  /\ UNCHANGED updVars
  /\ UNCHANGED pageVars
  /\ UNCHANGED obsVars

(* -------------------------- run_detect_scan --------------------------- *)
\* the mappings system_driver_packages() can return (a dict: its keys are
\* distinct); the empty one also stands for the call raising (lines 95-97)
Mappings == {m \in SeqsUpTo(PkgNames, MaxPkgs) : IsInjective(m)}

\* the lists get_desktop_package_list() can return; the empty one also
\* stands for the call raising (lines 139-140)
RecommendedLists == SeqsUpTo(PkgNames, MaxPkgs)

\* lines 73-74, 87-89
DetectEnter ==
  /\ pc = "d_enter"
  /\ detectEntered' = TRUE
  /\ IF ~is_running
     THEN Return /\ NoEmit
     ELSE /\ pc' = "d_sysdrv"
          /\ Emit(<<ProgressEvent(10, "run_detect_scan")>>)
  /\ KeepLocals
  /\ UNCHANGED <<guiVars, is_running, updates_found>>
  /\ UNCHANGED <<launches, stopCalled, stopBeforeFirst, stopAtCall, refreshStderr, pluginFailed,
                 aptInvoked, cmdFailed>>
  /\ UNCHANGED updVars
  /\ UNCHANGED pageVars
  /\ UNCHANGED obsVars

\* lines 91-97
DetectSystemPackages ==
  /\ pc = "d_sysdrv"
  /\ \E m \in Mappings : packages' = m
  /\ updates_found' = <<>>
  /\ pc' = "d_check"
  /\ UNCHANGED <<ctrlVars, is_running, ctx, to_install, lines, idx, proc, histVars>>
  /\ UNCHANGED updVars
  /\ UNCHANGED pageVars
  /\ UNCHANGED obsVars

\* lines 99-101
DetectCheck ==
  /\ pc = "d_check"
  /\ IF ~is_running
     THEN Return /\ NoEmit
     ELSE /\ pc' = "d_loop"
          /\ Emit(<<ProgressEvent(40, "run_detect_scan")>>)
  /\ KeepLocals
  /\ UNCHANGED <<guiVars, is_running, updates_found>>
  /\ UNCHANGED <<launches, stopCalled, stopBeforeFirst, stopAtCall, refreshStderr, pluginFailed,
                 detectEntered, aptInvoked, cmdFailed>>
  /\ UNCHANGED updVars
  /\ UNCHANGED pageVars
  /\ UNCHANGED obsVars

\* lines 115-119: the loop head, its flag check and the call of _policy
DetectLoop ==
  /\ pc = "d_loop"
  /\ IF idx > Len(packages)
     THEN pc' = "d_after"
     ELSE IF ~is_running THEN Return ELSE pc' = "rc_check"
  /\ ctx' = IF pc' = "rc_check" THEN "d_upg" ELSE "none"
  /\ packages' = Local(packages, <<>>)
  /\ to_install' = Local(to_install, <<>>)
  /\ lines' = Local(lines, <<>>)
  /\ idx' = Local(idx, 1)
  /\ proc' = Local(proc, NoProc)
  /\ policySeen' = Local(policySeen, <<>>)
  /\ UNCHANGED <<listingSeen, overlapVars>>
  /\ UNCHANGED <<ctrlVars, is_running, updates_found, histVars>>
  /\ UNCHANGED updVars
  /\ UNCHANGED pageVars

\* lines 105-112, 120-129: _policy parses the output, the entry is added
DetectLoopBody ==
  /\ pc = "d_upg_ret"
  /\ LET pol == Policy(proc.stdout)
     IN  updates_found' = updates_found \o DetectUpdates(packages[idx], pol[1], pol[2])
  /\ idx' = idx + 1
  /\ proc' = NoProc
  /\ ctx' = "none"
  /\ pc' = "d_loop"
  /\ policySeen' = Append(policySeen, [package |-> packages[idx],
                                       entry |-> DetectEntryCalledFor(packages[idx], proc.stdout)])
  /\ UNCHANGED <<listingSeen, overlapVars>>
  /\ UNCHANGED <<ctrlVars, is_running, packages, to_install, lines, histVars>>
  /\ UNCHANGED updVars
  /\ UNCHANGED pageVars

\* a pass that asks for the recommended packages whatever the upgrade loop
\* found
DetectAfterLoopAlways ==
  /\ pc = "d_after"
  /\ Emit(<<ProgressEvent(70, "run_detect_scan")>>)
  /\ \E t \in RecommendedLists : to_install' = t
  /\ pc' = "d_rec"
  /\ idx' = 1
  /\ UNCHANGED guiVars
  /\ UNCHANGED <<is_running, ctx, packages, lines, updates_found, proc>>
  /\ UNCHANGED <<launches, stopCalled, stopBeforeFirst, stopAtCall, refreshStderr, pluginFailed,
                 detectEntered, aptInvoked, cmdFailed>>
  /\ UNCHANGED updVars
  /\ UNCHANGED pageVars
  /\ UNCHANGED obsVars

\* lines 131-140: nothing to upgrade, ask for the recommended packages
DetectAfterLoop ==
  /\ pc = "d_after"
  /\ IF updates_found = <<>>
     THEN /\ Emit(<<ProgressEvent(70, "run_detect_scan")>>)
          /\ \E t \in RecommendedLists : to_install' = t
          /\ pc' = "d_rec"
     ELSE /\ NoEmit
          /\ UNCHANGED to_install
          /\ pc' = "d_finish"
  /\ idx' = 1
  /\ UNCHANGED guiVars
  /\ UNCHANGED <<is_running, ctx, packages, lines, updates_found, proc>>
  /\ UNCHANGED <<launches, stopCalled, stopBeforeFirst, stopAtCall, refreshStderr, pluginFailed,
                 detectEntered, aptInvoked, cmdFailed>>
  /\ UNCHANGED updVars
  /\ UNCHANGED pageVars
  /\ UNCHANGED obsVars

\* lines 142-143: the loop head (no flag check) and the call of _policy
DetectRecommendLoop ==
  /\ pc = "d_rec"
  /\ IF idx > Len(to_install)
     THEN pc' = "d_finish" /\ UNCHANGED ctx
     ELSE pc' = "rc_check" /\ ctx' = "d_rec"
  /\ UNCHANGED <<ctrlVars, is_running, packages, to_install, lines, idx, updates_found, proc,
                 histVars>>
  /\ UNCHANGED updVars
  /\ UNCHANGED pageVars
  /\ UNCHANGED obsVars

\* lines 105-112, 144-154
DetectRecommendBody ==
  /\ pc = "d_rec_ret"
  /\ LET pol == Policy(proc.stdout)
     IN  updates_found' = updates_found \o RecommendedUpdates(to_install[idx], pol[1], pol[2])
  /\ idx' = idx + 1
  /\ proc' = NoProc
  /\ ctx' = "none"
  /\ pc' = "d_rec"
  /\ UNCHANGED <<ctrlVars, is_running, packages, to_install, lines, histVars>>
  /\ UNCHANGED updVars
  /\ UNCHANGED pageVars
  /\ UNCHANGED obsVars

\* lines 156-160, then run_scan returns (line 75)
DetectFinish ==
  /\ pc = "d_finish"
  /\ Emit(<<ProgressEvent(100, "run_detect_scan"), FinishedEvent(updates_found, "run_detect_scan")>>)
  /\ pc' = "done"
  /\ KeepLocals
  /\ UNCHANGED <<guiVars, is_running, updates_found>>
  /\ UNCHANGED <<launches, stopCalled, stopBeforeFirst, stopAtCall, refreshStderr, pluginFailed,
                 detectEntered, aptInvoked, cmdFailed>>
  /\ UNCHANGED updVars
  /\ UNCHANGED pageVars
  /\ UNCHANGED obsVars

(* ---------------------------- run_apt_scan ---------------------------- *)
\* splitlines()[1:], line 182
SkipHeader(stdout) == IF stdout = <<>> THEN <<>> ELSE Tail(stdout)

\* an error text without the generic message for an empty stderr
RefreshErrorTextBare(stderr) == stderr

\* line 172: the stripped stderr, or the generic message
RefreshErrorText(stderr) ==
  IF stderr # <<>> THEN stderr ELSE <<"Permission denied or error occurred during 'apt update'.">>

\* lines 80-81, 166-170
AptEnter ==
  /\ pc = "a_enter"
  /\ aptInvoked' = TRUE
  /\ updates_found' = <<>>
  /\ IF ~is_running
     THEN Return /\ NoEmit
     ELSE /\ Emit(<<ProgressEvent(10, "run_apt_scan")>>)
          /\ pc' = "rc_check"
  /\ ctx' = IF pc' = "rc_check" THEN "a_update" ELSE "none"
  /\ UNCHANGED <<guiVars, is_running, packages, to_install, lines, idx, proc>>
  /\ policySeen' = <<>>
  /\ UNCHANGED <<listingSeen, overlapVars>>
  /\ UNCHANGED <<launches, stopCalled, stopBeforeFirst, stopAtCall, refreshStderr, pluginFailed,
                 detectEntered, cmdFailed>>
  /\ UNCHANGED updVars
  /\ UNCHANGED pageVars

\* lines 171-179
AptAfterUpdate ==
  /\ pc = "a_update_ret"
  /\ IF proc.rc # 0
     THEN /\ Emit(<<ErrorEvent(<<"Failed to update package list.">> \o RefreshErrorText(proc.stderr),
                               "run_apt_scan")>>)
          /\ Return
     ELSE IF ~is_running
     THEN Return /\ NoEmit
     ELSE /\ Emit(<<ProgressEvent(40, "run_apt_scan")>>)
          /\ pc' = "rc_check"
  /\ ctx' = IF pc' = "rc_check" THEN "a_list" ELSE "none"
  /\ proc' = NoProc
  /\ UNCHANGED <<guiVars, is_running, packages, to_install, lines, idx, updates_found>>
  /\ UNCHANGED <<launches, stopCalled, stopBeforeFirst, stopAtCall, refreshStderr, pluginFailed,
                 detectEntered, aptInvoked, cmdFailed>>
  /\ UNCHANGED updVars
  /\ UNCHANGED pageVars
  /\ UNCHANGED obsVars

\* lines 181-183
AptAfterList ==
  /\ pc = "a_list_ret"
  /\ lines' = SkipHeader(proc.stdout)
  /\ updates_found' = <<>>
  /\ idx' = 1
  /\ proc' = NoProc
  /\ ctx' = "none"
  /\ pc' = "a_loop"
  /\ listingSeen' = proc.stdout
  /\ UNCHANGED <<policySeen, overlapVars>>
  /\ UNCHANGED <<ctrlVars, is_running, packages, to_install, histVars>>
  /\ UNCHANGED updVars
  /\ UNCHANGED pageVars

\* lines 185-186: the loop head and its flag check
AptLoop ==
  /\ pc = "a_loop"
  /\ IF idx > Len(lines)
     THEN pc' = "a_finish"
     ELSE IF ~is_running THEN Return ELSE pc' = "a_body"
  /\ KeepLocals
  /\ listingSeen' = Local(listingSeen, <<>>)
  /\ UNCHANGED <<policySeen, overlapVars>>
  /\ UNCHANGED <<ctrlVars, is_running, updates_found, histVars>>
  /\ UNCHANGED updVars
  /\ UNCHANGED pageVars

\* a loop body that puts the entry of a line in front of the result
AptLoopBodyPrepending ==
  /\ pc = "a_body"
  /\ updates_found' = AptUpdates(lines[idx]) \o updates_found
  /\ idx' = idx + 1
  /\ pc' = "a_loop"
  /\ UNCHANGED <<ctrlVars, is_running, ctx, packages, to_install, lines, proc, histVars>>
  /\ UNCHANGED updVars
  /\ UNCHANGED pageVars
  /\ UNCHANGED obsVars

\* lines 187-203
AptLoopBody ==
  /\ pc = "a_body"
  /\ updates_found' = updates_found \o AptUpdates(lines[idx])
  /\ idx' = idx + 1
  /\ pc' = "a_loop"
  /\ UNCHANGED <<ctrlVars, is_running, ctx, packages, to_install, lines, proc, histVars>>
  /\ UNCHANGED updVars
  /\ UNCHANGED pageVars
  /\ UNCHANGED obsVars

\* lines 205-206
AptFinish ==
  /\ pc = "a_finish"
  /\ Emit(<<ProgressEvent(100, "run_apt_scan"), FinishedEvent(updates_found, "run_apt_scan")>>)
  /\ pc' = "done"
  /\ KeepLocals
  /\ UNCHANGED <<guiVars, is_running, updates_found>>
  /\ UNCHANGED <<launches, stopCalled, stopBeforeFirst, stopAtCall, refreshStderr, pluginFailed,
                 detectEntered, aptInvoked, cmdFailed>>
  /\ UNCHANGED updVars
  /\ UNCHANGED pageVars
  /\ UNCHANGED obsVars

(* ------------------------- DriverUpdaterApp --------------------------- *)
\* f"{value}%", line 495
PercentLabel(pct) ==
  CASE pct = 10 -> "10%" [] pct = 40 -> "40%" [] pct = 70 -> "70%" [] pct = 100 -> "100%"
    [] OTHER -> "?%"

\* the worker is inside run_detect_scan or run_apt_scan
InsideScan == pc \notin {"idle", "start", "load", "d_enter", "a_enter", "done", "crashed"}

\* the scan thread has finished: run_scan, called when the thread started,
\* has returned
ThreadFinished == pc \in {"idle", "done"}

\* a wait that gives up after its timeout, as wait(1000) does
WaitTimedOut == TRUE

\* scan_thread.wait() without a timeout, line 521, returns when the thread
\* has finished
WaitOver == ThreadFinished

\* the update thread has finished: run_update has returned (what
\* update_thread.wait() of line 652 waits for)
UpdateThreadFinished == u_pc \in {"idle", "done"}

\* ScanWorker.stop, lines 219-221
Stop ==
  /\ is_running' = FALSE
  /\ stopCalled' = TRUE
  /\ stopBeforeFirst' = (stopBeforeFirst \/ (InsideScan /\ updates_found = <<>>))

\* reset_scan_state up to its wait, lines 514-521: the GUI thread then
\* blocks in scan_thread.wait() until run_scan has returned
ResetScanState(next) ==
  /\ is_scanning' = FALSE
  /\ btn_text' = "SCAN"
  /\ gui' = "wait"
  /\ gui_next' = next

\* The GUI thread is ready for a click: it is in no slot, and its event
\* loop has delivered the signals queued before (an event loop pass sends
\* the posted events, then takes the window system's); only a worker that
\* is still running can have queued a signal since.
ReadyForClick ==
  /\ gui = "idle"
  /\ inbox = <<>> \/ pc \notin {"idle", "done"}

\* toggle_scan while idle, lines 470-490: a new worker and thread
StartScan ==
  /\ ReadyForClick
  /\ page = "scan"
  /\ ~is_scanning
  /\ scanOverlap' = (scanOverlap \/ ~ThreadFinished)
  /\ UNCHANGED updateOverlap
  /\ is_scanning' = TRUE
  /\ btn_text' = "Batal"
  /\ thread_running' = TRUE
  /\ pc' = "start"
  /\ is_running' = TRUE
  /\ ctx' = "none"
  /\ packages' = <<>>
  /\ to_install' = <<>>
  /\ lines' = <<>>
  /\ idx' = 1
  /\ updates_found' = <<>>
  /\ proc' = NoProc
  /\ events' = <<>>
  /\ launches' = <<>>
  /\ stopCalled' = FALSE
  /\ stopBeforeFirst' = FALSE
  /\ stopAtCall' = FALSE
  /\ refreshStderr' = None
  /\ pluginFailed' = "none"
  /\ detectEntered' = FALSE
  /\ aptInvoked' = FALSE
  /\ cmdFailed' = FALSE
  /\ policySeen' = <<>>
  /\ listingSeen' = <<>>
  /\ UNCHANGED <<gui, gui_next, page, banner, inbox>>
  /\ UNCHANGED updVars
  /\ UNCHANGED pageVars

\* toggle_scan while scanning, lines 463-469: stop(), quit(), wait(1000)
\* and reset_scan_state(message)
CancelScan ==
  /\ ReadyForClick
  /\ page = "scan"
  /\ is_scanning
  /\ thread_running
  /\ Stop
  /\ ResetScanState("stay")
  /\ banner' = "message"
  /\ UNCHANGED <<thread_running, page, inbox>>
  /\ UNCHANGED <<pc, ctx, packages, to_install, lines, idx, updates_found, proc>>
  /\ UNCHANGED <<events, launches, stopAtCall, refreshStderr, pluginFailed, detectEntered,
                 aptInvoked, cmdFailed>>
  /\ UNCHANGED updVars
  /\ UNCHANGED pageVars
  /\ UNCHANGED obsVars

\* update_progress, lines 492-499
UpdateProgress(ev) ==
  /\ btn_text' = PercentLabel(ev.pct)
  /\ banner' = IF is_scanning THEN "scanning" ELSE "message"
  /\ UNCHANGED <<is_scanning, thread_running, gui, gui_next, page>>
  /\ UNCHANGED pageVars

\* finish_scan, lines 501-505
FinishScan(ev) ==
  /\ ResetScanState("results")
  /\ banner' = "ok"
  /\ found_updates' = ev.list
  /\ UNCHANGED <<thread_running, page, buttons_enabled, dialogs>>

\* scan_error, lines 507-511
ScanError(ev) ==
  /\ ResetScanState("stay")
  /\ banner' = "error"
  /\ UNCHANGED <<thread_running, page>>
  /\ UNCHANGED pageVars

\* the GUI thread's event loop takes the next queued signal to its slot
\* (the connections of lines 484-487)
Deliver ==
  /\ gui = "idle"
  /\ inbox # <<>>
  /\ inbox' = Tail(inbox)
  /\ LET ev == Head(inbox)
     IN  CASE ev.type = "progress" -> UpdateProgress(ev)
           [] ev.type = "finished" -> FinishScan(ev)
           [] ev.type = "error" -> ScanError(ev)
  /\ UNCHANGED <<scanVars, histVars>>
  /\ UNCHANGED updVars
  /\ UNCHANGED obsVars

\* scan_thread.wait() returns once run_scan has returned and the thread's
\* event loop has quit; the slot that called reset_scan_state goes on
\* (lines 504-505: the results page is built, its buttons enabled, and
\* shown)
WaitReturns ==
  /\ gui = "wait"
  /\ WaitOver
  /\ thread_running' = FALSE
  /\ gui' = "idle"
  /\ gui_next' = "stay"
  /\ page' = IF gui_next = "stay" THEN page ELSE gui_next
  /\ buttons_enabled' = IF gui_next = "results" THEN TRUE ELSE buttons_enabled
  /\ UNCHANGED <<found_updates, dialogs>>
  /\ UNCHANGED <<is_scanning, btn_text, banner, inbox, scanVars, histVars>>
  /\ UNCHANGED updVars
  /\ UNCHANGED obsVars

\* lines 624-632: a new update worker, whose thread calls run_update(pkgs)
\* when it starts; the record of the one before is dropped
NewUpdateWorker(at, pkgs) ==
  /\ u_pc' = at
  /\ u_packages' = pkgs
  /\ u_idx' = 1
  /\ u_any_not_installed' = FALSE
  /\ u_determined' = <<>>
  /\ u_failed' = <<>>
  /\ u_calls' = <<>>
  /\ u_events' = <<>>
  /\ u_rc' = NoStatus
  /\ u_exc' = "none"
  /\ UNCHANGED u_inbox

\* go_to_scan_page, lines 601-606 (the Rescan button of the results page,
\* one of the buttons start_update disables).  The results page is left:
\* its list and buttons are out of reach until finish_scan builds the next
\* one, and the record of its finished update worker is closed with it.
GoToScanPage ==
  /\ ReadyForClick
  /\ page = "results"
  /\ buttons_enabled
  /\ ResetScanState("scan")
  /\ banner' = "ok"
  /\ found_updates' = <<>>
  /\ buttons_enabled' = FALSE
  /\ dialogs' = <<>>
  /\ UNCHANGED <<thread_running, page, inbox, scanVars, histVars, obsVars>>
  /\ IF UpdateThreadFinished /\ u_inbox = <<>>
     THEN NewUpdateWorker("idle", <<>>)
     ELSE UNCHANGED updVars

\* the package identifiers of a candidate list, in its order
PackagesOf(list) == [i \in 1..Len(list) |-> list[i].package]

\* the package lists the buttons of the results page pass to start_update:
\* Update All (there when the list is not empty, line 548) and the Update
\* button of each item (line 594)
UpdateChoices(list) ==
  (IF list # <<>> THEN {PackagesOf(list)} ELSE {})
    \cup {<<list[i].package>> : i \in 1..Len(list)}

\* the answers to the confirmation question of line 612
Replies == {"Yes", "No"}

\* The record of the scan whose result is on the page ends where an update
\* of that result begins: its worker has returned and is out of use.
CloseScanRecord ==
  /\ pc' = "idle"
  /\ is_running' = TRUE
  /\ updates_found' = <<>>
  /\ UNCHANGED <<ctx, packages, to_install, lines, idx, proc>>
  /\ events' = <<>>
  /\ launches' = <<>>
  /\ stopCalled' = FALSE
  /\ stopBeforeFirst' = FALSE
  /\ stopAtCall' = FALSE
  /\ refreshStderr' = None
  /\ pluginFailed' = "none"
  /\ detectEntered' = FALSE
  /\ aptInvoked' = FALSE
  /\ cmdFailed' = FALSE
  /\ policySeen' = <<>>
  /\ listingSeen' = <<>>

\* start_update, lines 608-632: a click on an enabled Update button
StartUpdate ==
  /\ ReadyForClick
  /\ page = "results"
  /\ buttons_enabled
  /\ \E pkgs \in UpdateChoices(found_updates), reply \in Replies :
       IF pkgs = <<>> \/ reply = "No"
       THEN UNCHANGED <<buttons_enabled, dialogs, updVars, updateOverlap, histVars, policySeen,
                        listingSeen, scanVars>>
       ELSE /\ IF ThreadFinished
               THEN CloseScanRecord
               ELSE UNCHANGED <<histVars, policySeen, listingSeen, scanVars>>
            /\ buttons_enabled' = FALSE
            /\ dialogs' = <<>>
            /\ updateOverlap' = (updateOverlap \/ ~UpdateThreadFinished)
            /\ NewUpdateWorker("start", pkgs)
  /\ UNCHANGED <<ctrlVars, found_updates, scanOverlap>>

\* the substrings finish_update looks for, line 641
RebootKeywords == {"linux-", "kernel", "nvidia"}

\* any(k in text for k in [...]), line 641
MentionsRebootKeyword(text) == \E i \in 1..Len(text) : text[i] \in RebootKeywords

\* the message boxes of finish_update, lines 638-645
UpdateDialogs(success, message) ==
  IF success
  THEN <<"Update Complete">>
         \o (IF MentionsRebootKeyword(message) THEN <<"Reboot Recommended">> ELSE <<>>)
  ELSE <<"Update Failed">>

\* finish_update, lines 634-652: the slot of the update worker's finished
FinishUpdate ==
  /\ gui = "idle"
  /\ u_inbox # <<>>
  /\ UpdateThreadFinished
  /\ LET ev == Head(u_inbox)
     IN  dialogs' = dialogs \o UpdateDialogs(ev.success, ev.message)
  /\ buttons_enabled' = TRUE
  /\ u_inbox' = Tail(u_inbox)
  /\ UNCHANGED <<u_pc, u_packages, u_idx, u_any_not_installed, u_determined, u_failed, u_calls, u_events,
                 u_rc, u_exc>>
  /\ UNCHANGED <<ctrlVars, found_updates, scanVars, histVars, obsVars>>
  /\ UNCHANGED obsVars

(* ---------------------------- UpdateWorker ---------------------------- *)
\* list.insert(i, x)
InsertAt(s, i, x) == SubSeq(s, 1, i) \o <<x>> \o SubSeq(s, i + 1, Len(s))

\* line 247
BaseCmd == <<<<"pkexec">>, <<"apt">>, <<"install">>, <<"-y">>>>

OnlyUpgradeFlag == <<"--only-upgrade">>

\* the condition of line 248 inverted
UpgradeOnlyInverted(any_not_installed) == any_not_installed

\* line 248: the condition under which --only-upgrade is inserted
UpgradeOnly(any_not_installed) == ~any_not_installed

\* lines 247-251: the argv of the install command
InstallCmd(any_not_installed, pkgs) ==
  (IF UpgradeOnly(any_not_installed) THEN InsertAt(BaseCmd, 3, OnlyUpgradeFlag) ELSE BaseCmd)
    \o pkgs

\* _is_installed, lines 237-243: True when the query cannot be launched,
\* else whether the output has an Installed field that is not (none)
IsInstalled(launched, stdout) ==
  IF ~launched THEN TRUE
  ELSE LET g == SearchField(stdout, "Installed:")
       IN  g # None /\ g # <<>> /\ g # NotInstalledMark

\* how the subprocess.run of line 239 failed: it raised (the query could not
\* be launched), or the query exited with a non-zero status
QueryFailure(launched, rc) ==
  IF ~launched THEN "launch" ELSE IF rc # 0 THEN "exit" ELSE "none"

\* the exit statuses of the install command in the model
InstallExitCodes == {0, 1, 100}

\* the messages of finished, lines 261, 263, 265
SuccessMessage == <<"Update completed successfully.">>

FailureMessage(rc) == <<"Update failed with exit code ", ToString(rc), ".">>

ExceptionMessage(exc) == <<"An error occurred during the update process: ", exc>>

\* a handler that takes only a failed command, not a failed launch
CaughtCalledProcessErrorOnly(exc) == exc = "CalledProcessError"

\* line 264, except Exception
CaughtByUpdateHandler(exc) == exc \in ExceptionSubclasses

\* finished.emit(success, message)
UpdateFinished(success, message) == [success |-> success, message |-> message]

\* an emit that reaches no slot: recorded, but nothing is queued
UpdateEmitUnqueued(ev) ==
  /\ u_events' = Append(u_events, ev)
  /\ UNCHANGED u_inbox

\* self.finished.emit(...): recorded, and queued for the GUI thread
UpdateEmit(ev) ==
  /\ u_events' = Append(u_events, ev)
  /\ u_inbox' = Append(u_inbox, ev)

\* lines 233-235
UpdateBegin ==
  /\ u_pc = "start"
  /\ u_pc' = "query"
  /\ u_idx' = 1
  /\ u_any_not_installed' = FALSE
  /\ UNCHANGED <<u_packages, u_determined, u_failed, u_calls, u_events, u_inbox, u_rc, u_exc>>
  /\ UNCHANGED <<ctrlVars, pageVars, scanVars, histVars, obsVars>>

\* line 245: any() asks _is_installed for the next package and stops at
\* the first that is not installed
UpdateQuery ==
  /\ u_pc = "query"
  /\ IF u_idx > Len(u_packages)
     THEN /\ u_pc' = "install"
          /\ UNCHANGED <<u_idx, u_any_not_installed, u_determined, u_failed>>
     ELSE \E launched \in BOOLEAN :
          \E r \in ProcResults("apt-cache policy") :
            LET installed == IsInstalled(launched, r.stdout)
            IN  /\ u_determined' = Append(u_determined, installed)
                /\ u_failed' = Append(u_failed, QueryFailure(launched, r.rc))
                /\ u_any_not_installed' = ~installed
                /\ u_idx' = u_idx + 1
                /\ u_pc' = IF installed THEN "query" ELSE "install"
  /\ UNCHANGED <<u_packages, u_calls, u_events, u_inbox, u_rc, u_exc>>
  /\ UNCHANGED <<ctrlVars, pageVars, scanVars, histVars, obsVars>>

\* lines 247-253: the one subprocess.run of the install command; a missing
\* pkexec raises FileNotFoundError, which line 264 turns into finished
UpdateInstall ==
  /\ u_pc = "install"
  /\ \E started \in BOOLEAN :
       /\ u_calls' = Append(u_calls, [argv |-> InstallCmd(u_any_not_installed, u_packages),
                                      started |-> started])
       /\ IF started
          THEN /\ u_pc' = "install_wait"
               /\ UNCHANGED <<u_events, u_inbox, u_exc>>
          ELSE /\ u_exc' = "FileNotFoundError"
               /\ IF CaughtByUpdateHandler("FileNotFoundError")
                  THEN /\ UpdateEmit(UpdateFinished(FALSE, ExceptionMessage("FileNotFoundError")))
                       /\ u_pc' = "done"
                  ELSE /\ UNCHANGED <<u_events, u_inbox>>
                       /\ u_pc' = "crashed"
  /\ UNCHANGED <<u_packages, u_idx, u_any_not_installed, u_determined, u_failed, u_rc>>
  /\ UNCHANGED <<ctrlVars, pageVars, scanVars, histVars, obsVars>>

\* lines 253-263: the install command exits
UpdateInstallExit ==
  /\ u_pc = "install_wait"
  /\ \E rc \in InstallExitCodes :
       /\ u_rc' = rc
       /\ UpdateEmit(IF rc = 0 THEN UpdateFinished(TRUE, SuccessMessage)
                     ELSE UpdateFinished(FALSE, FailureMessage(rc)))
  /\ u_pc' = "done"
  /\ UNCHANGED <<u_packages, u_idx, u_any_not_installed, u_determined, u_failed, u_calls, u_exc>>
  /\ UNCHANGED <<ctrlVars, pageVars, scanVars, histVars, obsVars>>

(* --------------------------- specification ---------------------------- *)
WorkerStep ==
  \/ RunScanBegin
  \/ LoadPlugin
  \/ RunCommandCheck
  \/ RunCommandLaunch
  \/ ProcessExit
  \/ DetectEnter
  \/ DetectSystemPackages
  \/ DetectCheck
  \/ DetectLoop
  \/ DetectLoopBody
  \/ DetectAfterLoop
  \/ DetectRecommendLoop
  \/ DetectRecommendBody
  \/ DetectFinish
  \/ AptEnter
  \/ AptAfterUpdate
  \/ AptAfterList
  \/ AptLoop
  \/ AptLoopBody
  \/ AptFinish

UpdateStep ==
  \/ UpdateBegin
  \/ UpdateQuery
  \/ UpdateInstall
  \/ UpdateInstallExit

GuiStep ==
  \/ StartScan
  \/ CancelScan
  \/ Deliver
  \/ WaitReturns
  \/ GoToScanPage
  \/ StartUpdate
  \/ FinishUpdate

Next == WorkerStep \/ GuiStep \/ UpdateStep

Spec == Init /\ [][Next]_vars

\* UpdateWorker.run_update on its own: called with any package sequence
UpdateCalled ==
  /\ ScanIdle
  /\ u_pc = "start"
  /\ u_packages \in SeqsUpTo(PkgNames, MaxPkgs)
  /\ u_idx = 1
  /\ u_any_not_installed = FALSE
  /\ u_determined = <<>>
  /\ u_failed = <<>>
  /\ u_calls = <<>>
  /\ u_events = <<>>
  /\ u_inbox = <<>>
  /\ u_rc = NoStatus
  /\ u_exc = "none"

SpecUpdate == UpdateCalled /\ [][UpdateStep]_vars

\* The worker thread is scheduled and every launched subprocess exits:
\* a worker step that stays possible is eventually taken.
FairSpec == Spec /\ WF_vars(WorkerStep)

\* Both worker threads are scheduled and every launched subprocess exits;
\* scan_thread.wait() returns once the scan thread has finished; and the
\* event loop of the GUI thread runs the slot of a queued finished signal
\* of the update worker (its message boxes are dismissed).
FairUpdateSpec ==
  /\ Spec
  /\ WF_vars(WorkerStep)
  /\ WF_vars(UpdateStep)
  /\ WF_vars(WaitReturns)
  /\ WF_vars(FinishUpdate)

(* ------------------------------ properties ---------------------------- *)
EventsOfType(t) == {i \in 1..Len(events) : events[i].type = t}

TerminalEvents == EventsOfType("finished") \cup EventsOfType("error")

\* C1: whenever loading the plugin fails, run_apt_scan is invoked in the
\* same run (the failure handler leads nowhere else), and every terminal
\* event of the run, finished or error, comes from run_apt_scan: none is
\* emitted because of the plugin failure.
C1_PluginFailureFallsBack ==
  pluginFailed # "none" =>
    /\ aptInvoked \/ pc = "a_enter"
    /\ \A i \in TerminalEvents : events[i].src = "run_apt_scan"

\* a run in which apt_pkg.init() failed and the fallback finished the scan
C1_Witness ==
  /\ pluginFailed = "SystemError"
  /\ pc = "done"
  /\ aptInvoked
  /\ EventsOfType("finished") # {}

\* C2: if stop() is called while run_detect_scan or run_apt_scan runs and
\* before any candidate has been added to the result, the worker never
\* emits finished with a non-empty candidate list.
C2_NoResultAfterEarlyStop ==
  stopBeforeFirst => \A i \in EventsOfType("finished") : events[i].list = <<>>

C4_NoLaunchAfterStop == \A i \in 1..Len(launches) : ~launches[i].callAfterStop

\* C5: in a run in which stop() was called and no external command
\* failed, the worker emits no error event.
C5_CancelIsNoError == (stopCalled /\ ~cmdFailed) => EventsOfType("error") = {}

\* C9: if 'pkexec apt update' exits non-zero, the run emits exactly one
\* error event, carrying the captured stderr or the generic message when
\* stderr is empty, as soon as run_apt_scan has seen the status; it never
\* launches the upgradable listing, never emits finished, and run_apt_scan
\* emits no progress above 10.
C9_RefreshFailureIsScanError ==
  refreshStderr # None =>
    /\ \A i \in 1..Len(launches) : launches[i].cmd # "apt list --upgradable"
    /\ EventsOfType("finished") = {}
    /\ \A i \in EventsOfType("progress") :
         events[i].src = "run_apt_scan" => events[i].pct <= 10
    /\ IF pc = "a_update_ret"
       THEN EventsOfType("error") = {}
       ELSE /\ Cardinality(EventsOfType("error")) = 1
            /\ Last(events).type = "error"
            /\ Last(events).msg =
                 <<"Failed to update package list.">>
                   \o (IF refreshStderr # <<>> THEN refreshStderr
                       ELSE <<"Permission denied or error occurred during 'apt update'.">>)

\* a refresh that failed without any stderr has ended the run with its error
C9_Witness ==
  /\ refreshStderr = <<>>
  /\ pc = "done"
  /\ Cardinality(EventsOfType("error")) = 1

\* C10: in every candidate list emitted by finished, each candidate of type
\* 'detect' or 'apt' has current_version different from new_version.
C10_VersionsDiffer ==
  \A i \in EventsOfType("finished") :
    \A k \in 1..Len(events[i].list) :
      LET c == events[i].list[k]
      IN  c.type \in {"detect", "apt"} => c.current_version # c.new_version

\* what _is_installed said of every package of the batch
AllDeterminedInstalled ==
  /\ Len(u_determined) = Len(u_packages)
  /\ \A i \in 1..Len(u_determined) : u_determined[i]

\* C6: run_update issues the privileged install command (the
\* subprocess.run of line 253) exactly once for the whole batch, with every
\* given package as an argument in the given order after the options, and
\* with --only-upgrade iff every package was determined to be installed.
C6_OneInstallForTheBatch ==
  /\ Len(u_calls) <= 1
  /\ u_pc \in {"install_wait", "done"} => Len(u_calls) = 1
  /\ \A i \in 1..Len(u_calls) :
       LET argv == u_calls[i].argv
           opts == Len(argv) - Len(u_packages)
       IN  /\ opts >= 0
           /\ SubSeq(argv, opts + 1, Len(argv)) = u_packages
           /\ SubSeq(argv, 1, opts) =
                IF AllDeterminedInstalled
                THEN <<<<"pkexec">>, <<"apt">>, <<"install">>, <<"--only-upgrade">>, <<"-y">>>>
                ELSE <<<<"pkexec">>, <<"apt">>, <<"install">>, <<"-y">>>>

\* a batch of two, the second not installed: one general install of both
C6_Witness ==
  /\ u_pc = "done"
  /\ u_determined = <<TRUE, FALSE>>
  /\ Len(u_calls) = 1
  /\ OnlyUpgradeFlag \notin Range(u_calls[1].argv)

\* C7: run_update emits exactly one finished event and lets no exception
\* escape; success is true iff the install command was launched and exited
\* with 0; an exit status N # 0 gives success false and a message
\* containing N; an exception gives success false and its text.
C7_OneStructuredOutcome ==
  /\ u_pc # "crashed"
  /\ u_pc # "done" => u_events = <<>>
  /\ u_pc = "done" =>
       /\ Len(u_events) = 1
       /\ u_events[1].success <=>
            (u_calls # <<>> /\ Last(u_calls).started /\ u_rc = 0)
       /\ u_rc \notin {NoStatus, 0} =>
            ~u_events[1].success /\ ToString(u_rc) \in Range(u_events[1].message)
       /\ u_exc # "none" =>
            ~u_events[1].success /\ u_exc \in Range(u_events[1].message)

\* the install command exited with 100
C7_Witness ==
  /\ u_pc = "done"
  /\ u_rc = 100
  /\ Len(u_events) = 1
  /\ ~u_events[1].success

\* C8: run_update given an empty package sequence ends with a failure
\* outcome and issues no install command.
C8_EmptyBatchRejected ==
  u_packages = <<>> =>
    /\ u_calls = <<>>
    /\ u_pc = "done" => (Len(u_events) = 1 /\ ~u_events[1].success)

\* the candidates of the lists emitted by finished from inside `src`
EmittedCandidates(src) ==
  UNION { Range(events[i].list) :
          i \in {j \in EventsOfType("finished") : events[j].src = src} }

\* C11: every candidate of type 'detect-recommended' that run_detect_scan
\* adds to its result, and so every one it emits, has current_version
\* "(none)", whatever the policy query printed (Installed: (none), no
\* Installed field, or nothing).
C11_RecommendedNotInstalled ==
  \A c \in Range(updates_found) \cup EmittedCandidates("run_detect_scan") :
    c.type = "detect-recommended" => c.current_version = NotInstalledMark

\* a result of two recommended packages was emitted: one whose query printed
\* no Candidate, one whose query printed a Candidate
C11_Witness ==
  \E i \in EventsOfType("finished") :
    /\ Len(events[i].list) = 2
    /\ \A k \in 1..2 : events[i].list[k].type = "detect-recommended"
    /\ events[i].list[1].new_version = <<>>
    /\ events[i].list[2].new_version \in Versions

\* the concatenation of the entries of a sequence of policySeen records
RECURSIVE EntriesOf(_)
EntriesOf(seen) ==
  IF seen = <<>> THEN <<>> ELSE Head(seen).entry \o EntriesOf(Tail(seen))

\* the entries of type t of a candidate list, in order
RECURSIVE OfType(_, _)
OfType(list, t) ==
  IF list = <<>> THEN <<>>
  ELSE (IF Head(list).type = t THEN <<Head(list)>> ELSE <<>>) \o OfType(Tail(list), t)

\* C12: when run_detect_scan emits its result, every package of the plugin
\* mapping has been asked about, in the mapping's order, and the 'detect'
\* candidates of the result are, package by package, exactly what the
\* policy outputs call for: one candidate from the Installed to the
\* Candidate value when the output has both, Installed is not "(none)" and
\* they differ, none otherwise.
C12_DetectCandidatesAsPolicySays ==
  /\ pc \in {"d_after", "d_rec", "d_finish"} =>
        /\ Len(policySeen) = Len(packages)
        /\ \A i \in 1..Len(packages) : policySeen[i].package = packages[i]
  /\ pc \in {"d_after", "d_finish"} =>
        OfType(updates_found, "detect") = EntriesOf(policySeen)
  /\ \A i \in EventsOfType("finished") :
        events[i].src = "run_detect_scan" =>
          OfType(events[i].list, "detect") = EntriesOf(policySeen)

\* an uncancelled run over a mapping of two packages, the first with
\* nothing to upgrade, the second with an upgrade, has emitted its result
C12_Witness ==
  /\ ~stopCalled
  /\ Len(policySeen) = 2
  /\ policySeen[1].entry = <<>>
  /\ policySeen[2].entry # <<>>
  /\ \E i \in EventsOfType("finished") :
        /\ events[i].src = "run_detect_scan"
        /\ Len(events[i].list) = 1

\* C13: within one run of run_scan the percentages of the progress events
\* never decrease.
C13_ProgressNeverDecreases ==
  \A i, j \in EventsOfType("progress") : i < j => events[i].pct <= events[j].pct

\* C15: once run_detect_scan has been entered in a run, run_apt_scan is not
\* invoked in that run.
C15_FallbackOnlyWithoutPlugin == detectEntered => ~aptInvoked

\* C14: when finish_update has handled the success of an update whose
\* package set includes a kernel-related or vendor-driver package (an
\* identifier containing 'linux-', 'kernel' or 'nvidia'), it has shown the
\* reboot recommendation.
C14_RebootAdvisedAfterDriverUpdate ==
  ( /\ dialogs # <<>>
    /\ dialogs[1] = "Update Complete"
    /\ \E i \in 1..Len(u_packages) : MentionsRebootKeyword(u_packages[i]) )
  => "Reboot Recommended" \in Range(dialogs)

\* C16: no scan worker is ever started while another is executing run_scan
\* and no update worker while another is executing run_update: whenever
\* the controller can start one (it is in no slot, and is not scanning,
\* respectively has the results page's buttons enabled), the worker before
\* has returned.
C16_OneWorkerOfEachKind ==
  /\ ~scanOverlap
  /\ ~updateOverlap
  /\ (gui = "idle" /\ ~is_scanning) => ThreadFinished
  /\ (gui = "idle" /\ page = "results" /\ buttons_enabled) => UpdateThreadFinished

\* a scan started after the one before was cancelled is executing, the
\* cancelled worker having returned
C16_Witness ==
  /\ is_scanning
  /\ banner = "message"
  /\ pc = "rc_wait"
  /\ ~stopCalled
  /\ ~scanOverlap

\* C17: a run of run_scan emits at most one terminal event (finished or
\* error), and exactly one once it has ended if stop() was not called
\* during it (the flag run_scan set is still set); finished directly
\* follows a progress event of 100; a run that emits error emits no
\* progress of 100.
C17_OneTerminalEvent ==
  /\ Cardinality(TerminalEvents) <= 1
  /\ (pc \in {"done", "crashed"} /\ is_running) => Cardinality(TerminalEvents) = 1
  /\ \A i \in EventsOfType("finished") :
        /\ i > 1
        /\ events[i - 1].type = "progress"
        /\ events[i - 1].pct = 100
  /\ EventsOfType("error") # {} =>
        \A i \in EventsOfType("progress") : events[i].pct # 100

\* an uncancelled run ended with the error of a listing that failed, after
\* the progress of both passes
C17_Witness ==
  /\ pc = "done"
  /\ is_running
  /\ ~stopCalled
  /\ detectEntered
  /\ Len(events) >= 5
  /\ Last(events).type = "error"
  /\ Last(events).src = "run_apt_scan"

\* the positions of the lines of a listing output, its first line left
\* out, that match the keyword pattern
MatchingLines(stdout) == {k \in 2..Len(stdout) : DriverRegexMatches(stdout[k])}

\* the position of the n-th matching line
NthMatching(stdout, n) ==
  CHOOSE k \in MatchingLines(stdout) :
    Cardinality({j \in MatchingLines(stdout) : j <= k}) = n

\* C18: the candidate sequence run_apt_scan emits is the in-order image of
\* the lines of the listing output after the first that match the keyword
\* pattern: one candidate per matching line, the n-th candidate taken from
\* the n-th matching line (its package the text before the first '/', its
\* new version the second field); so it is a function of the listing
\* output, and two runs over the same output emit the same sequence.
C18_ResultIsImageOfListing ==
  \A i \in EventsOfType("finished") :
    events[i].src = "run_apt_scan" =>
      LET list == events[i].list
      IN  /\ Len(listingSeen) >= 1
          /\ Len(list) = Cardinality(MatchingLines(listingSeen))
          /\ \A n \in 1..Len(list) :
                LET line == listingSeen[NthMatching(listingSeen, n)]
                IN  /\ list[n].type = "apt"
                    /\ list[n].package = BeforeSlash(line[1])
                    /\ list[n].new_version = line[2]
                    /\ list[n] \in Range(AptUpdates(line))

\* a listing of a driver line without and one with a stated installed
\* version, in this order, has given a result of two candidates
C18_Witness ==
  \E i \in EventsOfType("finished") :
    /\ events[i].src = "run_apt_scan"
    /\ Len(listingSeen) = 3
    /\ Len(events[i].list) = 2
    /\ events[i].list[1].current_version = NotAvailableMark
    /\ events[i].list[2].current_version = <<"1.2">>

\* C19: the cancellation flag is written by stop() alone: once stop() has
\* been called on the worker of a started scan the flag stays cleared, no
\* step of the worker's run sets it again.
C19_FlagWrittenByStopAlone == stopCalled => ~is_running

\* C20: from the moment the controller has handled a cancel request until
\* the next user command it shows the neutral idle state: the scan page,
\* the button labelled SCAN, no error display; no signal of the cancelled
\* worker delivered in between changes that.
C20_CancelledStaysIdle ==
  stopCalled =>
    /\ page = "scan"
    /\ btn_text = "SCAN"
    /\ banner # "error"

\* run_detect_scan has emitted the progress of its recommended pass
RecommendedPassAnnounced ==
  \E i \in EventsOfType("progress") :
    events[i].pct = 70 /\ events[i].src = "run_detect_scan"

\* the worker is inside the recommended pass of run_detect_scan
InRecommendedPass ==
  \/ pc \in {"d_rec", "d_rec_ret"}
  \/ pc \in {"rc_check", "rc_launch", "rc_wait"} /\ ctx = "d_rec"

\* C21: in run_detect_scan the recommended pass runs, and progress 70 is
\* emitted, iff the upgrade loop produced no 'detect' candidate; and all
\* candidates of an emitted result have the same type.
C21_RecommendedOnlyWithoutUpgrades ==
  /\ InRecommendedPass =>
        RecommendedPassAnnounced /\ EntriesOf(policySeen) = <<>>
  /\ pc = "d_finish" =>
        (RecommendedPassAnnounced <=> EntriesOf(policySeen) = <<>>)
  /\ \A i \in EventsOfType("finished") :
        /\ events[i].src = "run_detect_scan" =>
              (RecommendedPassAnnounced <=> EntriesOf(policySeen) = <<>>)
        /\ \A a, b \in Range(events[i].list) : a.type = b.type

\* a run whose upgrade loop found an upgrade has emitted its result without
\* a recommended pass
C21_Witness ==
  /\ ~RecommendedPassAnnounced
  /\ EntriesOf(policySeen) # <<>>
  /\ \E i \in EventsOfType("finished") :
        /\ events[i].src = "run_detect_scan"
        /\ events[i].list # <<>>

\* C22: run_update treats a package whose policy query failed, either way
\* (the query could not be launched, or it exited unsuccessfully), as
\* installed; so an install command issued after queries that all failed
\* or reported an installed package carries --only-upgrade.
C22_FailedQueryMeansInstalled ==
  /\ \A i \in 1..Len(u_failed) : u_failed[i] # "none" => u_determined[i]
  /\ \A k \in 1..Len(u_calls) :
        (\A i \in 1..Len(u_failed) : u_failed[i] # "none" \/ u_determined[i])
          => OnlyUpgradeFlag \in Range(u_calls[k].argv)

\* C23: every 'apt' candidate that run_apt_scan adds to its result, and so
\* every one it emits, has a package name (the text before the first '/')
\* that matches the driver/firmware keyword pattern: the repository, version,
\* architecture and bracketed text of a line get no package reported.
C23_OnlyNamesMatchKeywords ==
  \A c \in Range(updates_found) \cup EmittedCandidates("run_apt_scan") :
    c.type = "apt" => DriverRegexMatches(<<c.package>>)

\* C24: every update that start_update starts (the worker is at the start
\* of run_update, the buttons of the results page disabled) leads to
\* finish_update having run and shown its message box, with the buttons of
\* the results page enabled again, whatever the install command does.
C24_UpdateLeadsToButtonsEnabled ==
  (u_pc = "start" /\ ~buttons_enabled) ~> (dialogs # <<>> /\ buttons_enabled)

\* finish_update has run for an update whose install command could not be
\* launched: the failure box is up and the buttons are enabled again
C24_Witness ==
  /\ u_exc = "FileNotFoundError"
  /\ u_pc = "done"
  /\ u_inbox = <<>>
  /\ dialogs = <<"Update Failed">>
  /\ buttons_enabled

\* C25: in every candidate list emitted by finished, by run_detect_scan or
\* by run_apt_scan, the package identifiers are pairwise distinct.
C25_NoDuplicatePackages ==
  \A i \in EventsOfType("finished") : IsInjective(PackagesOf(events[i].list))

====
